---- MODULE Spec2Model ----
(***************************************************************************)
(* Precedent Finder: the record store (one table of precedents with a      *)
(* unique title), the HTTP handlers of app.py (search, suggestions,        *)
(* create) and the admin CLI of manage.py (add, delete), modelled as a     *)
(* state machine.  Text is modelled by TLA+ strings, taken apart character *)
(* by character, so that trimming, whitespace-collapsing, lower-casing,    *)
(* LIKE matching and integer parsing are computed as the code computes     *)
(* them.  The database is the default one, SQLite (app.py line 21).        *)
(* The requests run concurrently, each store statement a step; Spec has    *)
(* the writes with the fetch and the list, and SpecQuery, SpecShort,       *)
(* SpecPages, SpecFilter, SpecSort, SpecSuggest, SpecCli and SpecStats     *)
(* have one kind of read each among writes.                                *)
(***************************************************************************)
EXTENDS Integers, Sequences, FiniteSets, Bags, TLC

VARIABLES store, resp, run, boot

vars == <<store, resp, run, boot>>

(***************************************************************************)
(* Bounds of the model.                                                    *)
(***************************************************************************)
\* largest row id the model lets the store assign
MaxId == 3

\* how many of the sample rows init_db stores, from the head of its list
SampleCount == 2

\* how many requests can be between two of their store statements at once
Running == 2

(***************************************************************************)
(* Program constants.                                                      *)
(***************************************************************************)
MinQueryLen == 2
MinPrefixLen == 2
MinWordLen == 2
DefaultPage == 1
DefaultPerPage == 20
MaxSuggestions == 5

(***************************************************************************)
(* Characters and strings.                                                 *)
(***************************************************************************)
\* the characters the model's texts use, in ascending code-point order
Alphabet == "\t %(),-.0123456789ABCDEFGHIJKLMNOPQRSTUVWXYZ_abcdefghijklmnopqrstuvwxyzÉé"

\* the letters with two cases, those of ASCII first
UpperLetters == "ABCDEFGHIJKLMNOPQRSTUVWXYZÉ"

LowerLetters == "abcdefghijklmnopqrstuvwxyzé"

AsciiUpper == SubSeq(UpperLetters, 1, 26)

Digits == "0123456789"

Char(s, i) == SubSeq(s, i, i)

CharsOf(s) == {Char(s, i) : i \in 1..Len(s)}

IndexIn(c, s) == CHOOSE i \in 1..Len(s) : Char(s, i) = c

\* code-point order of the characters
Code == [c \in CharsOf(Alphabet) |-> IndexIn(c, Alphabet)]

\* what Python's str.strip() and str.split() treat as whitespace
Whitespace == {" ", "\t"}

IsSpace(c) == c \in Whitespace

\* str.lower() on one character
LowerChar == [c \in CharsOf(Alphabet) |->
                IF c \in CharsOf(UpperLetters)
                  THEN Char(LowerLetters, IndexIn(c, UpperLetters))
                  ELSE c]

\* str.lower(), computed half by half
RECURSIVE Lower(_)
Lower(s) == IF s = "" THEN ""
            ELSE IF Len(s) = 1 THEN LowerChar[s]
            ELSE Lower(SubSeq(s, 1, Len(s) \div 2))
                   \o Lower(SubSeq(s, Len(s) \div 2 + 1, Len(s)))

\* the case folding of SQLite's LIKE on one character: the letters of ASCII
\* only
FoldChar == [c \in CharsOf(Alphabet) |->
               IF c \in CharsOf(AsciiUpper) THEN LowerChar[c] ELSE c]

\* the case folding of SQLite's LIKE, computed half by half
RECURSIVE Fold(_)
Fold(s) == IF s = "" THEN ""
           ELSE IF Len(s) = 1 THEN FoldChar[s]
           ELSE Fold(SubSeq(s, 1, Len(s) \div 2))
                  \o Fold(SubSeq(s, Len(s) \div 2 + 1, Len(s)))

RECURSIVE LStrip(_)
LStrip(s) == IF s /= "" /\ IsSpace(Char(s, 1))
               THEN LStrip(SubSeq(s, 2, Len(s)))
               ELSE s

RECURSIVE RStrip(_)
RStrip(s) == IF s /= "" /\ IsSpace(Char(s, Len(s)))
               THEN RStrip(SubSeq(s, 1, Len(s) - 1))
               ELSE s

\* str.strip()
Strip(s) == RStrip(LStrip(s))

\* s.startswith(p)
StartsWith(s, p) == Len(p) <= Len(s) /\ SubSeq(s, 1, Len(p)) = p

\* length of the leading run of characters of s that are not in stops
RECURSIVE RunLen(_, _)
RunLen(s, stops) == IF s = "" \/ Char(s, 1) \in stops THEN 0
                    ELSE 1 + RunLen(SubSeq(s, 2, Len(s)), stops)

\* str.split(): the maximal runs of non-whitespace characters, in order
RECURSIVE SplitWords(_)
SplitWords(s) ==
  LET t == LStrip(s)
      n == RunLen(t, Whitespace)
  IN  IF t = "" THEN <<>>
      ELSE <<SubSeq(t, 1, n)>> \o SplitWords(SubSeq(t, n + 1, Len(t)))

\* str.split(sep) for a one-character separator: the pieces between the
\* separators, empty pieces included
RECURSIVE SplitOn(_, _)
SplitOn(s, sep) ==
  LET n == RunLen(s, {sep})
  IN  IF n = Len(s) THEN <<s>>
      ELSE <<SubSeq(s, 1, n)>> \o SplitOn(SubSeq(s, n + 2, Len(s)), sep)

\* sep.join(words)
RECURSIVE Join(_, _)
Join(words, sep) ==
  IF words = <<>> THEN ""
  ELSE IF Len(words) = 1 THEN words[1]
  ELSE words[1] \o sep \o Join(Tail(words), sep)

\* string order of Python's sorted() and of SQLite's BINARY collation
\* a and b agree before some position i of b, where a ends or has the
\* smaller character
StrLess(a, b) ==
  \E i \in 1..Len(b) :
    /\ i - 1 <= Len(a)
    /\ SubSeq(a, 1, i - 1) = SubSeq(b, 1, i - 1)
    /\ i > Len(a) \/ Code[Char(a, i)] < Code[Char(b, i)]

\* utils.sanitize_search_query
sanitize_search_query(query) == Join(SplitWords(Strip(query)), " ")


(***************************************************************************)
(* Integer conversion: Python's int().                                     *)
(***************************************************************************)
IsDigit(c) == c \in CharsOf(Digits)

DigitValue(c) == IndexIn(c, Digits) - 1

\* the text of a decimal literal: digits, single underscores between them
IsDecimal(t) ==
  /\ t /= ""
  /\ IsDigit(Char(t, 1))
  /\ IsDigit(Char(t, Len(t)))
  /\ \A i \in 1..Len(t) : IsDigit(Char(t, i)) \/ Char(t, i) = "_"
  /\ \A i \in 1..(Len(t) - 1) : ~(Char(t, i) = "_" /\ Char(t, i + 1) = "_")

RECURSIVE DecimalValue(_, _)
DecimalValue(t, acc) ==
  IF t = "" THEN acc
  ELSE IF Char(t, 1) = "_" THEN DecimalValue(SubSeq(t, 2, Len(t)), acc)
  ELSE DecimalValue(SubSeq(t, 2, Len(t)), 10 * acc + DigitValue(Char(t, 1)))

\* int(s) for a string s: ok is FALSE where Python raises ValueError
ParseInt(s) ==
  LET t    == Strip(s)
      neg  == t /= "" /\ Char(t, 1) = "-"
      body == IF neg THEN SubSeq(t, 2, Len(t)) ELSE t
  IN  IF IsDecimal(body)
        THEN [ok |-> TRUE,
              v  |-> IF neg THEN 0 - DecimalValue(body, 0) ELSE DecimalValue(body, 0)]
        ELSE [ok |-> FALSE, v |-> 0]

(***************************************************************************)
(* JSON values of a request body.  A float is held in tenths (19915 is     *)
(* 1991.5).  The text fields of the bodies the model sends are strings or  *)
(* null.                                                                   *)
(***************************************************************************)
JStr(s) == [t |-> "str", s |-> s, n |-> 0]

JInt(n) == [t |-> "int", s |-> "", n |-> n]

JFloat(tenths) == [t |-> "float", s |-> "", n |-> tenths]

JBool(b) == [t |-> "bool", s |-> "", n |-> IF b THEN 1 ELSE 0]

JNull == [t |-> "null", s |-> "", n |-> 0]

\* int(x) for a JSON value x: ok is FALSE where Python raises (ValueError
\* for a string that is no integer literal, TypeError for None)
PyInt(x) ==
  CASE x.t = "int"   -> [ok |-> TRUE, v |-> x.n]
    [] x.t = "bool"  -> [ok |-> TRUE, v |-> x.n]
    [] x.t = "float" -> [ok |-> TRUE,
                         v  |-> IF x.n >= 0 THEN x.n \div 10 ELSE 0 - ((0 - x.n) \div 10)]
    [] x.t = "str"   -> ParseInt(x.s)
    [] OTHER         -> [ok |-> FALSE, v |-> 0]

(***************************************************************************)
(* The record store: the precedent table.                                  *)
(***************************************************************************)
\* column values: NULL, a text or an integer
NULL == [null |-> TRUE, v |-> ""]

Text(s) == [null |-> FALSE, v |-> s]

Num(n) == [null |-> FALSE, v |-> n]

\* the value a JSON string or null binds to a text column
ToColumn(x) == IF x.t = "null" THEN NULL ELSE Text(x.s)

\* Precedent(...): the unsaved object; columns not given are None
Precedent(title, case_number, year, court, description, keywords, section, article) ==
  [title |-> title, case_number |-> case_number, year |-> year, court |-> court,
   description |-> description, keywords |-> keywords, section |-> section,
   article |-> article]

\* the columns declared nullable=False
NotNullColumns == {"title", "case_number", "year", "court", "description"}

Ids(tbl) == {r.id : r \in tbl}

Max(S) == CHOOSE m \in S : \A k \in S : k <= m

\* the id SQLite gives the next row of an INTEGER PRIMARY KEY table
NextId(tbl) == IF tbl = {} THEN 1 ELSE Max(Ids(tbl)) + 1

NotNullViolated(row) == \E c \in NotNullColumns : row[c].null

\* title is declared unique=True
UniqueViolated(tbl, row) == \E r \in tbl : r.title = row.title

WithId(row, id) ==
  [id |-> id, title |-> row.title, case_number |-> row.case_number, year |-> row.year,
   court |-> row.court, description |-> row.description, keywords |-> row.keywords,
   section |-> row.section, article |-> row.article]

\* a mutation of Insert: the table has no unique constraint on title
InsertNoUnique(tbl, row) ==
  IF NotNullViolated(row)
    THEN [ok |-> FALSE, error |-> "NOT NULL constraint failed", table |-> tbl]
    ELSE [ok |-> TRUE, error |-> "", table |-> tbl \cup {WithId(row, NextId(tbl))}]

\* a mutation of Insert: the failed insert of a duplicate title is not
\* rolled back
InsertNoRollback(tbl, row) ==
  IF NotNullViolated(row)
    THEN [ok |-> FALSE, error |-> "NOT NULL constraint failed", table |-> tbl]
    ELSE IF UniqueViolated(tbl, row)
    THEN [ok |-> FALSE, error |-> "UNIQUE constraint failed",
          table |-> {r \in tbl : r.title /= row.title} \cup {WithId(row, NextId(tbl))}]
    ELSE [ok |-> TRUE, error |-> "", table |-> tbl \cup {WithId(row, NextId(tbl))}]

\* db.session.add(row); db.session.commit(), with db.session.rollback() on
\* the IntegrityError a violated constraint raises
Insert(tbl, row) ==
  IF NotNullViolated(row)
    THEN [ok |-> FALSE, error |-> "NOT NULL constraint failed", table |-> tbl]
    ELSE IF UniqueViolated(tbl, row)
    THEN [ok |-> FALSE, error |-> "UNIQUE constraint failed", table |-> tbl]
    ELSE [ok |-> TRUE, error |-> "", table |-> tbl \cup {WithId(row, NextId(tbl))}]

\* the row Insert has just added to tbl
Inserted(tbl) == CHOOSE r \in tbl : r.id = Max(Ids(tbl))

\* Precedent.to_dict
to_dict(r) == r

(***************************************************************************)
(* POST /api/precedent                                                     *)
(***************************************************************************)
required_fields == <<"title", "case_number", "year", "court", "description">>

Range(seq) == {seq[i] : i \in 1..Len(seq)}

\* a mutation of create_precedent: the required-fields check is skipped for
\* description
create_precedent_lax(tbl, data) ==
  IF ~(\A f \in Range(required_fields) \ {"description"} : f \in DOMAIN data)
    THEN [status |-> 400, error |-> "Missing required fields", table |-> tbl]
    ELSE
      LET year == PyInt(data["year"])
          row  == Precedent(ToColumn(data["title"]), ToColumn(data["case_number"]),
                            Num(year.v), ToColumn(data["court"]),
                            IF "description" \in DOMAIN data
                              THEN ToColumn(data["description"]) ELSE Text(""),
                            IF "keywords" \in DOMAIN data
                              THEN ToColumn(data["keywords"]) ELSE Text(""),
                            NULL, NULL)
          ins  == Insert(tbl, row)
      IN  IF ~year.ok
            THEN [status |-> 500, error |-> "invalid literal for int()", table |-> tbl]
          ELSE IF ~ins.ok
            THEN [status |-> 500, error |-> ins.error, table |-> tbl]
          ELSE [status |-> 201, error |-> "", table |-> ins.table]

create_precedent(tbl, data) ==
  IF ~(\A f \in Range(required_fields) : f \in DOMAIN data)
    THEN [status |-> 400, error |-> "Missing required fields", table |-> tbl]
    ELSE
      LET year == PyInt(data["year"])
          row  == Precedent(ToColumn(data["title"]), ToColumn(data["case_number"]),
                            Num(year.v), ToColumn(data["court"]),
                            ToColumn(data["description"]),
                            IF "keywords" \in DOMAIN data
                              THEN ToColumn(data["keywords"]) ELSE Text(""),
                            NULL, NULL)
          ins  == Insert(tbl, row)
      IN  IF ~year.ok
            THEN [status |-> 500, error |-> "invalid literal for int()", table |-> tbl]
          ELSE IF ~ins.ok
            THEN [status |-> 500, error |-> ins.error, table |-> ins.table]
          ELSE [status |-> 201, error |-> "", table |-> ins.table]

\* precedent.to_dict() after the commit and the response: the commit
\* expired the attributes, so the row of the id the insert got is read again
created_response(exists, tbl, precedent_id) ==
  IF ~exists
    THEN [status |-> 500, error |-> "no such table", body |-> <<>>]
  ELSE IF precedent_id \notin Ids(tbl)
    THEN [status |-> 500,
          error |-> "Instance has been deleted, or its row is otherwise not present.",
          body |-> <<>>]
  ELSE [status |-> 201, error |-> "",
        body |-> <<to_dict(CHOOSE r \in tbl : r.id = precedent_id)>>]

(***************************************************************************)
(* manage.py: add and delete                                               *)
(***************************************************************************)
\* add_precedent; the arguments are the strings argparse hands over
add_precedent(tbl, args) ==
  LET year == ParseInt(args.year)
      row  == Precedent(Text(args.title), Text(args.case_number), Num(year.v),
                        Text(args.court), Text(args.description), Text(args.keywords),
                        NULL, NULL)
      ins  == Insert(tbl, row)
  IN  IF ~year.ok THEN [ok |-> FALSE, table |-> tbl]
      ELSE [ok |-> ins.ok, table |-> ins.table]

\* delete_precedent
\* db.session.delete(precedent) and the commit: the DELETE of the rows of
\* this id, none when the row is gone by then
delete_commit(tbl, precedent_id) == {r \in tbl : r.id /= precedent_id}

\* delete_precedent with nothing between its SELECT and its DELETE
delete_precedent(tbl, precedent_id) ==
  IF precedent_id \notin Ids(tbl)
    THEN [ok |-> FALSE, table |-> tbl]
    ELSE [ok |-> TRUE, table |-> delete_commit(tbl, precedent_id)]


(***************************************************************************)
(* GET /api/search                                                         *)
(***************************************************************************)
\* request.args.get(name, default); an absent parameter is NULL
Arg(req, name, default) == IF req[name].null THEN default ELSE req[name].v

\* SQLite's LIKE on lower-cased operands: % matches any run of characters,
\* _ any one character, no escape character
\* the pattern from its position p on matches the text from its position t on
RECURSIVE LikeFrom(_, _, _, _)
LikeFrom(pattern, p, text, t) ==
  IF p > Len(pattern) THEN t > Len(text)
  ELSE IF Char(pattern, p) = "%"
    THEN \E k \in t..(Len(text) + 1) : LikeFrom(pattern, p + 1, text, k)
  ELSE /\ t <= Len(text)
       /\ Char(pattern, p) = "_" \/ Char(pattern, p) = Char(text, t)
       /\ LikeFrom(pattern, p + 1, text, t + 1)

LikeMatch(pattern, text) == LikeFrom(pattern, 1, text, 1)

\* column.ilike(pattern): lower(column) LIKE lower(pattern), which SQLite
\* computes on the letters A to Z only; NULL never matches
ilike(column, pattern) == ~column.null /\ LikeMatch(Fold(pattern), Fold(column.v))

\* a mutation of TextMatch: section and article are not searched
TextMatchFourFields(r, query) ==
  LET pattern == "%" \o query \o "%"
  IN  \/ ilike(r.title, pattern)
      \/ ilike(r.description, pattern)
      \/ ilike(r.keywords, pattern)
      \/ ilike(r.case_number, pattern)

\* the db.or_ of the six ilike tests
TextMatch(r, query) ==
  LET pattern == "%" \o query \o "%"
  IN  \/ ilike(r.title, pattern)
      \/ ilike(r.description, pattern)
      \/ ilike(r.keywords, pattern)
      \/ ilike(r.case_number, pattern)
      \/ ilike(r.section, pattern)
      \/ ilike(r.article, pattern)

\* a mutation of YearMatch: a year filter that int() refuses selects no row
YearMatchStrict(r, filter_year) ==
  filter_year.null \/ filter_year.v = ""
    \/ (ParseInt(filter_year.v).ok /\ r.year.v = ParseInt(filter_year.v).v)

\* the year filter: applied when the parameter is non-empty and int() takes it
YearMatch(r, filter_year) ==
  filter_year.null \/ filter_year.v = "" \/ ~ParseInt(filter_year.v).ok
    \/ r.year.v = ParseInt(filter_year.v).v

\* the court filter: applied when the parameter is non-empty
CourtMatch(r, filter_court) ==
  filter_court.null \/ filter_court.v = ""
    \/ ilike(r.court, "%" \o filter_court.v \o "%")

\* the rows base_query selects
Matching(tbl, query, filter_year, filter_court) ==
  {r \in tbl : TextMatch(r, query) /\ YearMatch(r, filter_year)
                 /\ CourtMatch(r, filter_court)}

KeyLess(r1, r2, column) ==
  IF column = "year" THEN r1.year.v < r2.year.v
  ELSE StrLess(r1[column].v, r2[column].v)

\* r1 comes before r2 under ORDER BY column [DESC]; SQLite returns rows of
\* equal key in the order of the table scan, by ascending rowid
Before(r1, r2, column, descending) ==
  IF KeyLess(r1, r2, column) THEN ~descending
  ELSE IF KeyLess(r2, r1, column) THEN descending
  ELSE r1.id < r2.id

RECURSIVE OrderBy(_, _, _)
OrderBy(rows, column, descending) ==
  IF rows = {} THEN <<>>
  ELSE LET first == CHOOSE r \in rows :
                      \A o \in rows \ {r} : Before(r, o, column, descending)
       IN  <<first>> \o OrderBy(rows \ {first}, column, descending)

\* a mutation of Sorted: the fallback follows the order parameter
SortedFallbackOrdered(rows, sort_by, sort_order) ==
  IF sort_by \in {"year", "title", "court"}
    THEN OrderBy(rows, sort_by, sort_order = "desc")
    ELSE OrderBy(rows, "year", sort_order = "desc")

\* the order_by the sort and order parameters select
Sorted(rows, sort_by, sort_order) ==
  IF sort_by \in {"year", "title", "court"}
    THEN OrderBy(rows, sort_by, sort_order = "desc")
    ELSE OrderBy(rows, "year", TRUE)

\* OFFSET n: a negative n counts as 0
Offset(seq, n) == IF n <= 0 THEN seq ELSE SubSeq(seq, n + 1, Len(seq))

\* LIMIT n: a negative n is no limit
Limit(seq, n) == IF n < 0 \/ n >= Len(seq) THEN seq ELSE SubSeq(seq, 1, n)

\* a mutation of PageOf: the offset is page * per_page
PageOfOffByOne(seq, page, per_page) == Limit(Offset(seq, page * per_page), per_page)

\* base_query.offset((page - 1) * per_page).limit(per_page).all()
PageOf(seq, page, per_page) == Limit(Offset(seq, (page - 1) * per_page), per_page)

\* a mutation of PageCount: rounds down
PageCountFloor(total, per_page) ==
  IF total > 0 THEN total \div per_page ELSE 0

\* (total + per_page - 1) // per_page if total > 0 else 0, for per_page /= 0
PageCount(total, per_page) ==
  IF total > 0 THEN (total + per_page - 1) \div per_page ELSE 0

\* a mutation of QueryInvalid: one character is enough
QueryInvalidUnderOne(query) == query = "" \/ Len(query) < MinQueryLen - 1

\* not query or len(query) < 2
QueryInvalid(query) == query = "" \/ Len(query) < MinQueryLen

MapSeq(seq, Op(_)) == [i \in 1..Len(seq) |-> Op(seq[i])]

\* the response to an unhandled exception (the 500 error handler)
ServerError(queries) ==
  [status |-> 500, error |-> "Internal server error", queries |-> queries]

\* search() up to its first store query: the parameters taken from the
\* request, and the response when the request ends there (the short query,
\* a page or per_page that int() refuses); queries counts the store queries
\* issued
search_params(req) ==
  [query    |-> sanitize_search_query(Strip(Arg(req, "q", ""))),
   page     |-> IF req.page.null THEN [ok |-> TRUE, v |-> DefaultPage]
                ELSE ParseInt(req.page.v),
   per_page |-> IF req.per_page.null THEN [ok |-> TRUE, v |-> DefaultPerPage]
                ELSE ParseInt(req.per_page.v),
   sort_by    |-> Arg(req, "sort", "year"),
   sort_order |-> Arg(req, "order", "desc")]

search_refused(req) ==
  LET p == search_params(req)
  IN  QueryInvalid(p.query) \/ ~p.page.ok \/ ~p.per_page.ok

search_refusal(req) ==
  IF QueryInvalid(search_params(req).query)
    THEN [status |-> 400, error |-> "Search query must be at least 2 characters",
          queries |-> 0]
    ELSE ServerError(0)

\* total = base_query.count(): the first store query
search_count(tbl, req) ==
  Cardinality(Matching(tbl, search_params(req).query, req.year, req.court))

\* the second store query, base_query.offset(...).limit(...).all() on the
\* sorted query, and the response built from its rows and the total counted
search_page(tbl, req, total) ==
  LET p    == search_params(req)
      rows == Sorted(Matching(tbl, p.query, req.year, req.court), p.sort_by, p.sort_order)
  IN  IF total > 0 /\ p.per_page.v = 0 THEN ServerError(2)
      ELSE [status |-> 200, error |-> "", queries |-> 2,
            results |-> MapSeq(PageOf(rows, p.page.v, p.per_page.v), to_dict),
            total |-> total, page |-> p.page.v, per_page |-> p.per_page.v,
            pages |-> PageCount(total, p.per_page.v)]

\* search() with no write to the table between its two queries
search(tbl, req) ==
  IF search_refused(req) THEN search_refusal(req)
  ELSE search_page(tbl, req, search_count(tbl, req))

\* utils.paginate_results
paginate_results(results, page, per_page) ==
  LET total == Len(results)
      start == (page - 1) * per_page
      end   == start + per_page
      from  == IF start < 0 THEN IF total + start < 0 THEN 0 ELSE total + start
               ELSE IF start > total THEN total ELSE start
      to    == IF end < 0 THEN IF total + end < 0 THEN 0 ELSE total + end
               ELSE IF end > total THEN total ELSE end
  IN  [results |-> SubSeq(results, from + 1, to), total |-> total, page |-> page,
       pages |-> (total + per_page - 1) \div per_page, per_page |-> per_page]

(***************************************************************************)
(* GET /api/suggestions                                                    *)
(***************************************************************************)
\* the terms one record contributes
TermsOf(r) ==
  LET keywords == IF r.keywords.null \/ r.keywords.v = "" THEN {}
                  ELSE {Lower(Strip(kw)) : kw \in Range(SplitOn(r.keywords.v, ","))}
      section  == IF r.section.null \/ r.section.v = "" THEN {}
                  ELSE {Lower(r.section.v)}
      article  == IF r.article.null \/ r.article.v = "" THEN {}
                  ELSE {Lower(r.article.v)}
      words    == {Lower(w) : w \in {x \in Range(SplitWords(r.title.v)) : Len(x) > MinWordLen}}
  IN  keywords \cup section \cup article \cup words

\* sorted(terms)
RECURSIVE SortStrings(_)
SortStrings(terms) ==
  IF terms = {} THEN <<>>
  ELSE LET first == CHOOSE t \in terms : \A o \in terms \ {t} : StrLess(t, o)
       IN  <<first>> \o SortStrings(terms \ {first})

\* a mutation of FirstN: the list is not cut
FirstNUncut(seq, n) == seq

\* seq[:n]
FirstN(seq, n) == IF Len(seq) <= n THEN seq ELSE SubSeq(seq, 1, n)

\* get_suggestions(): scanned tells whether the table was read
get_suggestions(tbl, req) ==
  LET prefix == Lower(Strip(Arg(req, "q", "")))
      terms  == UNION {TermsOf(r) : r \in tbl}
  IN  IF Len(prefix) < MinPrefixLen
        THEN [status |-> 200, suggestions |-> <<>>, scanned |-> FALSE]
        ELSE [status |-> 200,
              suggestions |-> FirstN(SortStrings({t \in terms : StartsWith(t, prefix)}),
                                     MaxSuggestions),
              scanned |-> TRUE]


(***************************************************************************)
(* GET /api/precedent/<id> and GET /stats                                  *)
(***************************************************************************)
\* get_precedent: Precedent.query.get(precedent_id)
get_precedent(tbl, precedent_id) ==
  IF precedent_id \notin Ids(tbl)
    THEN [status |-> 404, error |-> "Precedent not found", body |-> <<>>]
    ELSE [status |-> 200, error |-> "",
          body |-> <<to_dict(CHOOSE r \in tbl : r.id = precedent_id)>>]

\* count(Precedent.id) of the group of key under GROUP BY column
GroupCount(tbl, column, key) == Cardinality({r \in tbl : r[column].v = key})

RECURSIVE SortNumbers(_)
SortNumbers(S) ==
  IF S = {} THEN <<>>
  ELSE LET first == CHOOSE n \in S : \A o \in S : n <= o
       IN  <<first>> \o SortNumbers(S \ {first})

\* the second query of stats(): count(id) grouped by year, one entry a
\* group in the order of the group keys
stats_by_year(tbl) ==
  LET years == SortNumbers({r.year.v : r \in tbl})
  IN  [i \in 1..Len(years) |->
         [year |-> years[i], count |-> GroupCount(tbl, "year", years[i])]]

\* the third query of stats(): count(id) grouped by court
stats_by_court(tbl) ==
  LET courts == SortStrings({r.court.v : r \in tbl})
  IN  [i \in 1..Len(courts) |->
         [court |-> courts[i], count |-> GroupCount(tbl, "court", courts[i])]]

\* the response of stats() from what its three queries returned
stats_response(count, years, courts) ==
  [status |-> 200, total_precedents |-> count, by_year |-> years, by_court |-> courts]

\* stats() with no write to the table between its three queries
stats(tbl) ==
  stats_response(Cardinality(tbl), stats_by_year(tbl), stats_by_court(tbl))

(***************************************************************************)
(* manage.py: list and search                                              *)
(***************************************************************************)
\* Precedent.query.all(): the rows in rowid order
RECURSIVE AllRows(_)
AllRows(tbl) ==
  IF tbl = {} THEN <<>>
  ELSE LET first == CHOOSE r \in tbl : \A o \in tbl : r.id <= o.id
       IN  <<first>> \o AllRows(tbl \ {first})

TitleColumnWidth == 30

TitleCut == 27

\* list_precedents: the lines printed and the total
list_precedents(tbl) ==
  LET precedents == AllRows(tbl)
      Line(p) == [id |-> p.id,
                  title |-> IF Len(p.title.v) > TitleColumnWidth
                              THEN SubSeq(p.title.v, 1, TitleCut) \o "..."
                              ELSE p.title.v,
                  year |-> p.year.v, court |-> p.court.v]
  IN  [lines |-> MapSeq(precedents, Line), total |-> Len(precedents)]

\* the db.or_ of the four ilike tests of search_precedents
CliTextMatch(r, query) ==
  LET pattern == "%" \o query \o "%"
  IN  \/ ilike(r.title, pattern)
      \/ ilike(r.description, pattern)
      \/ ilike(r.keywords, pattern)
      \/ ilike(r.case_number, pattern)

\* search_precedents: the rows found, in rowid order
search_precedents(tbl, query) ==
  [results |-> AllRows({r \in tbl : CliTextMatch(r, query)})]

(***************************************************************************)
(* init_db: the sample data, the 30 rows of app.py in list order.  The     *)
(* model stores the first SampleCount of them.                             *)
(***************************************************************************)
sample_precedents ==
  <<
    Precedent(Text("Kesavananda Bharati v. State of Kerala"), Text("1973-SC-001"), Num(1973),
              Text("Supreme Court of India"),
              Text("Established the Basic Structure Doctrine of the Constitution."),
              Text("basic structure, constitutional amendments, judicial review, parliament"),
              Text("Article 368"), Text("Article 368")),
    Precedent(Text("Maneka Gandhi v. Union of India"), Text("1978-SC-002"), Num(1978),
              Text("Supreme Court of India"),
              Text("Expanded the right to life under Article 21 to include right to travel abroad."),
              Text("right to life, personal liberty, due process, privacy, freedom"),
              Text("Article 21"), Text("Article 21")),
    Precedent(Text("State of Kerala v. N.M. Thomas"), Text("1976-SC-011"), Num(1976),
              Text("Supreme Court of India"),
              Text("Held that classification for reservation must be reasonable under Article 14."),
              Text("equality, classification, reservation, reasonable nexus"),
              Text("Article 14"), Text("Article 14")),
    Precedent(Text("Indira Gandhi v. Raj Narain"), Text("1975-SC-005"), Num(1975),
              Text("Supreme Court of India"),
              Text("Struck down the 39th Amendment and upheld the right to information."),
              Text("election, corruption, right to know, democracy, freedom of speech"),
              Text("Article 329"), Text("Article 19")),
    Precedent(Text("State of Karnataka v. Union of India"), Text("1977-SC-006"), Num(1977),
              Text("Supreme Court of India"),
              Text("Upheld reservation policies under Article 16 for backward classes."),
              Text("reservation, equality, backward classes, affirmative action, discrimination"),
              Text("Article 16"), Text("Article 16")),
    Precedent(Text("Minerva Mills Ltd. v. Union of India"), Text("1980-SC-012"), Num(1980),
              Text("Supreme Court of India"),
              Text("Struck down amendments limiting judicial review under Article 32."),
              Text("judicial review, basic structure, fundamental rights, writ jurisdiction"),
              Text("Article 32"), Text("Article 32")),
    Precedent(Text("Commissioner, Hindu Religious Endowments v. Sri Lakshmindra Thirtha Swamiar"), Text("1954-SC-013"), Num(1954),
              Text("Supreme Court of India"),
              Text("Held that freedom of religion under Article 25 includes right to manage religious affairs."),
              Text("freedom of religion, religious freedom, conscience, management of religious affairs"),
              Text("Article 25"), Text("Article 25")),
    Precedent(Text("Vishaka v. State of Rajasthan"), Text("1997-SC-003"), Num(1997),
              Text("Supreme Court of India"),
              Text("Guidelines for prevention of sexual harassment at workplace."),
              Text("sexual harassment, workplace safety, gender equality, dignity"),
              Text("Section 509 IPC"), Text("Article 15")),
    Precedent(Text("State of Maharashtra v. Madhukar Narayan Mardikar"), Text("1991-SC-007"), Num(1991),
              Text("Supreme Court of India"),
              Text("Defined custodial death and torture under Section 302 IPC."),
              Text("custodial death, torture, police brutality, murder"),
              Text("Section 302 IPC"), Text("Article 21")),
    Precedent(Text("Sachin v. State of Madhya Pradesh"), Text("2006-SC-008"), Num(2006),
              Text("Supreme Court of India"),
              Text("Reduced sentence for juvenile offenders under Section 376 IPC."),
              Text("rape, juvenile, sentencing, criminal justice"),
              Text("Section 376 IPC"), Text("Article 21")),
    Precedent(Text("K. Kamaraj v. State of Tamil Nadu"), Text("1971-SC-004"), Num(1971),
              Text("Supreme Court of India"),
              Text("Held that Section 123(7) of RPA is unconstitutional."),
              Text("election law, corrupt practices, representation of people act"),
              Text("Section 123(7) RPA"), Text("Article 19")),
    Precedent(Text("Union of India v. Association for Democratic Reforms"), Text("2002-SC-009"), Num(2002),
              Text("Supreme Court of India"),
              Text("Candidates must disclose criminal antecedents under RPA."),
              Text("election disclosure, criminal record, transparency, democracy"),
              Text("Section 33B RPA"), Text("Article 19")),
    Precedent(Text("Ram Narain v. State of U.P."), Text("1973-SC-010"), Num(1973),
              Text("Supreme Court of India"),
              Text("Admissibility of dying declaration under Section 32 of Evidence Act."),
              Text("dying declaration, evidence, hearsay, murder trial, criminal procedure"),
              Text("Section 32 Indian Evidence Act"), Text("Article 21")),
    Precedent(Text("Dorab Cawasji Warden v. Coomi Sorab Warden"), Text("1990-SC-014"), Num(1990),
              Text("Supreme Court of India"),
              Text("Guidelines for grant of temporary injunction under Order 39 Rule 1 of CPC."),
              Text("injunction, temporary injunction, prima facie case, civil procedure, balance of convenience"),
              Text("Order 39 Rule 1 CPC"), Text("Article 226")),
    Precedent(Text("Syed Abdul Khader v. Rami Reddy"), Text("1979-SC-027"), Num(1979),
              Text("Supreme Court of India"),
              Text("Execution of decree under Order 21 Rule 1 of CPC."),
              Text("execution, decree, civil procedure, court execution, judgment debtor"),
              Text("Order 21 Rule 1 CPC"), Text("Article 226")),
    Precedent(Text("Sushil Kumar v. Rakesh Kumar"), Text("2003-SC-028"), Num(2003),
              Text("Supreme Court of India"),
              Text("Framing of issues under Order 14 Rule 1 of CPC."),
              Text("issues, framing of issues, civil procedure, trial, pleadings"),
              Text("Order 14 Rule 1 CPC"), Text("Article 226")),
    Precedent(Text("B.V. Nagaraju v. State of Karnataka"), Text("2007-SC-029"), Num(2007),
              Text("Supreme Court of India"),
              Text("Examination of witnesses under Order 18 Rule 1 of CPC."),
              Text("witnesses, examination, cross-examination, civil procedure, evidence"),
              Text("Order 18 Rule 1 CPC"), Text("Article 21")),
    Precedent(Text("K. Venkataramiah v. A. Seetharama Reddy"), Text("2006-SC-030"), Num(2006),
              Text("Supreme Court of India"),
              Text("Appeals under Order 41 Rule 1 of CPC."),
              Text("appeals, first appeal, memorandum of appeal, civil procedure, appellate court"),
              Text("Order 41 Rule 1 CPC"), Text("Article 226")),
    Precedent(Text("Shah Babulal Khimji v. Jayaben D. Kania"), Text("1981-SC-015"), Num(1981),
              Text("Supreme Court of India"),
              Text("Principles for grant of permanent injunction under Section 38 of Specific Relief Act."),
              Text("permanent injunction, specific relief, civil procedure, equity"),
              Text("Section 38 Specific Relief Act"), Text("Article 226")),
    Precedent(Text("State of Rajasthan v. Balchand"), Text("1977-SC-016"), Num(1977),
              Text("Supreme Court of India"),
              Text("Scope of anticipatory bail under Section 438 of CrPC."),
              Text("anticipatory bail, bail, criminal procedure, apprehension of arrest"),
              Text("Section 438 CrPC"), Text("Article 21")),
    Precedent(Text("Ram Prasad v. State of U.P."), Text("1974-SC-017"), Num(1974),
              Text("Supreme Court of India"),
              Text("Maintenance under Section 125 CrPC for wives and children."),
              Text("maintenance, criminal procedure, family law, domestic violence"),
              Text("Section 125 CrPC"), Text("Article 21")),
    Precedent(Text("Consolidated Engineering Enterprises v. Principal Secretary, Irrigation Department"), Text("2008-SC-018"), Num(2008),
              Text("Supreme Court of India"),
              Text("Principles for condonation of delay under Section 5 of Limitation Act."),
              Text("limitation, condonation of delay, sufficient cause, civil procedure"),
              Text("Section 5 Limitation Act"), Text("Article 226")),
    Precedent(Text("Bharat Aluminium Co. v. Kaiser Aluminium Technical Services Inc."), Text("2012-SC-019"), Num(2012),
              Text("Supreme Court of India"),
              Text("Scope of judicial intervention in arbitration under Section 34 of Arbitration Act."),
              Text("arbitration, judicial review, arbitration award, commercial disputes"),
              Text("Section 34 Arbitration and Conciliation Act"), Text("Article 226")),
    Precedent(Text("Abhinandan Jha v. Dinesh Mishra"), Text("1968-SC-020"), Num(1968),
              Text("Supreme Court of India"),
              Text("Cognizance of offenses by Magistrate under Section 190 of CrPC."),
              Text("cognizance, magistrate, criminal procedure, jurisdiction"),
              Text("Section 190 CrPC"), Text("Article 21")),
    Precedent(Text("Naveen Kohli v. Neelu Kohli"), Text("2006-SC-021"), Num(2006),
              Text("Supreme Court of India"),
              Text("Irretrievable breakdown of marriage under Section 13(1)(ia) of Hindu Marriage Act."),
              Text("divorce, irretrievable breakdown, family law, marriage"),
              Text("Section 13(1)(ia) Hindu Marriage Act"), Text("Article 21")),
    Precedent(Text("Murlidhar Chiranjilal v. Harishchandra Dwarkadas"), Text("1962-SC-022"), Num(1962),
              Text("Supreme Court of India"),
              Text("Measure of damages under Section 73 of Indian Contract Act."),
              Text("damages, contract law, breach of contract, remoteness"),
              Text("Section 73 Indian Contract Act"), Text("Article 19")),
    Precedent(Text("T. Lakshmipathi v. P. Nithyananda Reddy"), Text("2003-SC-023"), Num(2003),
              Text("Supreme Court of India"),
              Text("Part performance under Section 53A of Transfer of Property Act."),
              Text("part performance, transfer of property, equitable doctrine, immovable property"),
              Text("Section 53A Transfer of Property Act"), Text("Article 19")),
    Precedent(Text("Vodafone International Holdings BV v. Union of India"), Text("2012-SC-024"), Num(2012),
              Text("Supreme Court of India"),
              Text("Retrospective taxation under Section 195 of Income-tax Act and Vodafone case."),
              Text("taxation, capital gains, retrospective legislation, company law"),
              Text("Section 195 Income-tax Act"), Text("Article 14")),
    Precedent(Text("Indian Medical Association v. V.P. Shantha"), Text("1995-SC-025"), Num(1995),
              Text("Supreme Court of India"),
              Text("Medical negligence under Consumer Protection Act."),
              Text("medical negligence, consumer protection, service deficiency, healthcare"),
              Text("Section 2(1)(o) Consumer Protection Act"), Text("Article 21")),
    Precedent(Text("Workmen of Dimakuchi Tea Estate v. Dimakuchi Tea Estate"), Text("1958-SC-026"), Num(1958),
              Text("Supreme Court of India"),
              Text("Retrenchment under Section 25F of Industrial Disputes Act."),
              Text("retrenchment, labour law, industrial disputes, unfair labour practices"),
              Text("Section 25F Industrial Disputes Act"), Text("Article 19"))
  >>

\* db.session.add of the rows in order
RECURSIVE AddAll(_, _)
AddAll(tbl, rows) ==
  IF rows = <<>> THEN tbl
  ELSE AddAll(tbl \cup {WithId(Head(rows), NextId(tbl))}, Tail(rows))

\* the rows init_db adds
Samples == SubSeq(sample_precedents, 1, SampleCount)

\* the loop of db.session.add and the db.session.commit() that end init_db,
\* on the table as it is then: a title that is in the table already fails
\* the commit, and nothing is added
add_samples(tbl) ==
  IF \E i \in 1..Len(Samples) : UniqueViolated(tbl, Samples[i]) THEN tbl
  ELSE AddAll(tbl, Samples)

\* the table init_db leaves when nothing else writes while it runs
init_db == add_samples({})

(***************************************************************************)
(* The requests the model sends.                                           *)
(***************************************************************************)
Body(title, case_number, year, court, description) ==
  [title |-> title, case_number |-> case_number, year |-> year, court |-> court,
   description |-> description]

WithKeywords(data, keywords) ==
  [f \in DOMAIN data \cup {"keywords"} |->
     IF f = "keywords" THEN keywords ELSE data[f]]

Without(data, field) == [f \in DOMAIN data \ {field} |-> data[f]]

RamBody ==
  WithKeywords(Body(JStr("Ram v. State"), JStr("1991-HC-007"), JInt(1991),
                    JStr("High Court"), JStr("Bail  granted")),
               JStr(" Article 21 ,article 14,article 19,article 32,arrest,,Bail"))

AbcBody ==
  Body(JStr("Abc v. State"), JStr("1973-HC-009"), JStr("1973"),
       JStr("High Court"), JStr("Appeal_allowed 100%"))

HttpBodies ==
  {RamBody, AbcBody,
   \* null in a required field
   [RamBody EXCEPT !.title = JNull],
   [AbcBody EXCEPT !.description = JNull],
   [AbcBody EXCEPT !.year = JNull],
   \* years that are no integers
   [AbcBody EXCEPT !.year = JFloat(19735)],
   [AbcBody EXCEPT !.year = JStr("19x3")],
   [AbcBody EXCEPT !.year = JStr("1973.5")]}
    \cup {Without(RamBody, f) : f \in Range(required_fields)}

RamArgs ==
  [title |-> "Ram v. State", case_number |-> "1991-HC-070", year |-> " 1991 ",
   court |-> "High Court", description |-> "Bail refused", keywords |-> ""]

LalArgs ==
  [title |-> "Lal v. Union", case_number |-> "2001-SC-003", year |-> "2001.0",
   court |-> "Supreme Court", description |-> "Writ", keywords |-> "writ"]

CliArgs == {RamArgs, LalArgs}

SearchReq(q, page, per_page, year, court, sort, order) ==
  [q |-> q, page |-> page, per_page |-> per_page, year |-> year, court |-> court,
   sort |-> sort, order |-> order]

\* queries, every other parameter absent
QueryRequests ==
  {SearchReq(q, NULL, NULL, NULL, NULL, NULL, NULL) :
     q \in {Text("a"), Text(" v. "), Text("Bail  granted"), Text("E 3"),
            Text("0%"), Text("l_a")}}

\* short queries: alone, and with other parameters, malformed ones among
\* them; a query that is long enough, with a page that is no number and
\* with one that is
ShortRequests ==
  {SearchReq(q, NULL, NULL, NULL, NULL, NULL, NULL) :
     q \in {NULL, Text(""), Text("a"), Text(" a\t")}}
    \cup {SearchReq(q, page, Text("2"), Text("x"), NULL, Text("title"), Text("asc")) :
            q \in {NULL, Text(" a ")}, page \in {Text("x"), Text("0")}}
    \cup {SearchReq(Text("sc"), page, Text("2"), NULL, NULL, NULL, NULL) :
            page \in {Text("x"), Text("2")}}

\* one query, pages and page sizes of it; a query that matches nothing
PageRequests ==
  {SearchReq(Text("v."), page, Text("2"), NULL, NULL, NULL, NULL) :
     page \in {Text("0"), Text("-1"), Text("2"), Text("3")}}
    \cup {SearchReq(Text("v."), NULL, per_page, NULL, NULL, NULL, NULL) :
            per_page \in {Text("1"), Text("0")}}
    \cup {SearchReq(Text("zz"), NULL, Text("2"), NULL, NULL, NULL, NULL)}

\* one query, the filters of it
FilterRequests ==
  {SearchReq(Text("v."), NULL, Text("2"), year, court, NULL, NULL) :
     year \in {NULL, Text("1973"), Text("19x")},
     court \in {NULL, Text("HIGH")}}

\* one query, the orders of it: the three sort fields in the two orders, a
\* sort field that is none of them, and the defaults
SortRequests ==
  {SearchReq(Text("v."), NULL, NULL, NULL, NULL, sort, order) :
     sort \in {Text("year"), Text("title"), Text("court")},
     order \in {Text("asc"), Text("desc")}}
    \cup {SearchReq(Text("v."), NULL, NULL, NULL, NULL, Text("id"), Text("asc")),
          SearchReq(Text("v."), NULL, NULL, NULL, NULL, NULL, NULL)}

SuggestionRequests ==
  {[q |-> q] : q \in {NULL, Text("a"), Text(" a "), Text("ar"), Text("AR"),
                      Text(" ar"), Text("ba"), Text("article 2"), Text("zz")}}

FetchIds == 1..(MaxId + 1)

DeleteIds == 1..(MaxId + 1)

CliQueries == {"v.", "E 3", "KERALA", " v. ", "Bail  granted", "l_a", "zz", "a"}

(***************************************************************************)
(* The state machine.  store is the precedent table; run holds the         *)
(* requests that are between two of their store statements, each with      *)
(* what it has read so far; boot is where init_db is at start-up; resp is  *)
(* what the last step returned to its caller, Idle when it returned        *)
(* nothing.  Every action is one store statement (or one transaction)      *)
(* with the code around it: the server threads, manage.py and a start-up   *)
(* are separate connections to the store and nothing locks the store       *)
(* between the statements of a request, so any statement of another        *)
(* request can fall between two of them.  A request starts at any time; a  *)
(* request of more than one statement that would be the next in flight     *)
(* beyond Running waits.                                                   *)
(***************************************************************************)
Idle == [op |-> "idle"]

\* between db.drop_all() and db.create_all() the table is missing
TableExists == boot /= "dropped"

\* what a CLI command leaves when its query raises: the traceback
Traceback == [raised |-> "OperationalError: no such table"]

\* one more request can be between two of its statements
Free == BagCardinality(run) < Running

\* the requests in flight with rec among them, and without it
Started(rec) == run (+) SetToBag({rec})

Finished(rec) == run (-) SetToBag({rec})

\* run.py, app.py __main__: init_db() begins, db.drop_all()
InitDbDrop ==
  /\ boot = "done"
  /\ store' = {}
  /\ boot' = "dropped"
  /\ resp' = Idle
  /\ UNCHANGED run

\* init_db: db.create_all()
InitDbCreate ==
  /\ boot = "dropped"
  /\ boot' = "created"
  /\ resp' = Idle
  /\ UNCHANGED <<store, run>>

\* init_db: if Precedent.query.first(): return
InitDbCheck ==
  /\ boot = "created"
  /\ boot' = IF store /= {} THEN "done" ELSE "checked"
  /\ resp' = Idle
  /\ UNCHANGED <<store, run>>

\* init_db: the samples added and committed
InitDbAdd ==
  /\ boot = "checked"
  /\ add_samples(store) /= store => NextId(store) + SampleCount - 1 <= MaxId
  /\ store' = add_samples(store)
  /\ boot' = "done"
  /\ resp' = Idle
  /\ UNCHANGED run

\* POST /api/precedent to its commit; without the table the insert raises.
\* A create that is refused answers here
CreatePrecedent(bodies) ==
  \E data \in bodies :
    LET made == create_precedent(store, data)
        out  == IF TableExists \/ made.error \in {"Missing required fields",
                                                  "invalid literal for int()"}
                  THEN made
                  ELSE [status |-> 500, error |-> "no such table", table |-> store]
        rec  == [op |-> "create", req |-> data, id |-> NextId(store)]
    IN  /\ out.status = 201 => (NextId(store) <= MaxId /\ Free)
        /\ store' = out.table
        /\ IF out.status = 201
             THEN /\ run' = Started(rec)
                  /\ resp' = Idle
             ELSE /\ resp' = [op |-> "create", req |-> data, status |-> out.status,
                              error |-> out.error, body |-> <<>>]
                  /\ UNCHANGED run
        /\ UNCHANGED boot

\* POST /api/precedent after its commit: the row is read again and returned
CreateRead ==
  \E rec \in BagToSet(run) :
    LET read == created_response(TableExists, store, rec.id)
    IN  /\ rec.op = "create"
        /\ resp' = [op |-> "create", req |-> rec.req, status |-> read.status,
                    error |-> read.error, body |-> read.body]
        /\ run' = Finished(rec)
        /\ UNCHANGED <<store, boot>>

\* manage.py add
AddPrecedent(arguments) ==
  \E args \in arguments :
    LET out == IF TableExists THEN add_precedent(store, args)
               ELSE [ok |-> FALSE, table |-> store]
    IN  /\ out.ok => NextId(store) <= MaxId
        /\ store' = out.table
        /\ resp' = [op |-> "add", req |-> args, ok |-> out.ok]
        /\ UNCHANGED <<run, boot>>

\* manage.py delete to its SELECT: a row that is not found ends the command
DeletePrecedent(ids) ==
  \E precedent_id \in ids :
    LET found == TableExists /\ precedent_id \in Ids(store)
        rec   == [op |-> "delete", req |-> precedent_id]
    IN  /\ found => Free
        /\ IF found
             THEN /\ run' = Started(rec)
                  /\ resp' = Idle
             ELSE /\ resp' = [op |-> "delete", req |-> precedent_id, ok |-> FALSE]
                  /\ UNCHANGED run
        /\ UNCHANGED <<store, boot>>

\* manage.py delete from its DELETE: the rows of the id are deleted, none
\* when the row is gone, and the commit reports success; without the table
\* the DELETE raises
DeleteCommit ==
  \E rec \in BagToSet(run) :
    /\ rec.op = "delete"
    /\ store' = IF TableExists THEN delete_commit(store, rec.req) ELSE store
    /\ resp' = [op |-> "delete", req |-> rec.req, ok |-> TableExists]
    /\ run' = Finished(rec)
    /\ UNCHANGED boot

\* GET /api/search, to its first store query: the request is refused, or
\* the matches are counted
SearchCount(requests) ==
  \E req \in requests :
    LET rec == [op |-> "search", req |-> req, total |-> search_count(store, req)]
    IN  /\ IF search_refused(req)
             THEN /\ resp' = [op |-> "search", req |-> req, out |-> search_refusal(req)]
                  /\ UNCHANGED run
             ELSE IF ~TableExists
             THEN /\ resp' = [op |-> "search", req |-> req, out |-> ServerError(1)]
                  /\ UNCHANGED run
             ELSE /\ Free
                  /\ run' = Started(rec)
                  /\ resp' = Idle
        /\ UNCHANGED <<store, boot>>

\* GET /api/search, from its second store query: the page is read and the
\* response returned
SearchPage ==
  \E rec \in BagToSet(run) :
    /\ rec.op = "search"
    /\ resp' = [op |-> "search", req |-> rec.req,
                out |-> IF TableExists THEN search_page(store, rec.req, rec.total)
                        ELSE ServerError(2)]
    /\ run' = Finished(rec)
    /\ UNCHANGED <<store, boot>>

\* GET /api/suggestions
GetSuggestions(requests) ==
  \E req \in requests :
    LET out == get_suggestions(store, req)
    IN  /\ resp' = [op |-> "suggestions", req |-> req,
                    out |-> IF TableExists \/ ~out.scanned THEN out ELSE ServerError(1)]
        /\ UNCHANGED <<store, run, boot>>

\* GET /api/precedent/<id>
GetPrecedent(ids) ==
  \E precedent_id \in ids :
    /\ resp' = [op |-> "get", req |-> precedent_id,
                out |-> IF TableExists THEN get_precedent(store, precedent_id)
                        ELSE ServerError(1)]
    /\ UNCHANGED <<store, run, boot>>

\* GET /stats, its first query: Precedent.query.count()
StatsCount ==
  LET rec == [op |-> "stats", read |-> 1, count |-> Cardinality(store), years |-> <<>>]
  IN  /\ IF TableExists
           THEN /\ Free
                /\ run' = Started(rec)
                /\ resp' = Idle
           ELSE /\ resp' = [op |-> "stats", out |-> ServerError(1)]
                /\ UNCHANGED run
      /\ UNCHANGED <<store, boot>>

\* GET /stats, its second query: the counts by year
StatsYears ==
  \E rec \in BagToSet(run) :
    /\ rec.op = "stats" /\ rec.read = 1
    /\ IF TableExists
         THEN /\ run' = Finished(rec) (+)
                          SetToBag({[rec EXCEPT !.read = 2,
                                                !.years = stats_by_year(store)]})
              /\ resp' = Idle
         ELSE /\ resp' = [op |-> "stats", out |-> ServerError(2)]
              /\ run' = Finished(rec)
    /\ UNCHANGED <<store, boot>>

\* GET /stats, its third query, the counts by court, and the response
StatsCourts ==
  \E rec \in BagToSet(run) :
    /\ rec.op = "stats" /\ rec.read = 2
    /\ resp' = [op |-> "stats",
                out |-> IF TableExists
                          THEN stats_response(rec.count, rec.years, stats_by_court(store))
                          ELSE ServerError(3)]
    /\ run' = Finished(rec)
    /\ UNCHANGED <<store, boot>>

\* manage.py list
ListPrecedents ==
  /\ resp' = [op |-> "list",
              out |-> IF TableExists THEN list_precedents(store) ELSE Traceback]
  /\ UNCHANGED <<store, run, boot>>

\* manage.py search
SearchPrecedents(queries) ==
  \E query \in queries :
    /\ resp' = [op |-> "cli_search", req |-> query,
                out |-> IF TableExists THEN search_precedents(store, query)
                        ELSE Traceback]
    /\ UNCHANGED <<store, run, boot>>

\* the state start-up leaves: the table of the samples, no request
Init ==
  /\ store = init_db
  /\ resp = Idle
  /\ run = EmptyBag
  /\ boot = "done"

\* a start-up, at any time
Boots == InitDbDrop \/ InitDbCreate \/ InitDbCheck \/ InitDbAdd

\* the requests that write, and a start-up
Writes(bodies, arguments, ids) ==
  \/ Boots
  \/ CreatePrecedent(bodies)
  \/ CreateRead
  \/ AddPrecedent(arguments)
  \/ DeletePrecedent(ids)
  \/ DeleteCommit

\* the writes every kind of read is run among
SomeWrites == Writes({RamBody}, {RamArgs}, {1, MaxId})

\* the writes, the fetch and the list
Next ==
  \/ Writes(HttpBodies, CliArgs, DeleteIds)
  \/ GetPrecedent(FetchIds)
  \/ ListPrecedents

Spec == Init /\ [][Next]_vars

\* searches by their query, among writes
NextQuery ==
  \/ SomeWrites
  \/ SearchCount(QueryRequests)
  \/ SearchPage

SpecQuery == Init /\ [][NextQuery]_vars

\* searches with a short query, among writes
NextShort ==
  \/ SomeWrites
  \/ SearchCount(ShortRequests)
  \/ SearchPage

SpecShort == Init /\ [][NextShort]_vars

\* searches by their page, among writes
NextPages ==
  \/ SomeWrites
  \/ SearchCount(PageRequests)
  \/ SearchPage

SpecPages == Init /\ [][NextPages]_vars

\* searches by their filters, among writes
NextFilter ==
  \/ SomeWrites
  \/ SearchCount(FilterRequests)
  \/ SearchPage

SpecFilter == Init /\ [][NextFilter]_vars

\* searches by their order, among writes
NextSort ==
  \/ SomeWrites
  \/ SearchCount(SortRequests)
  \/ SearchPage

SpecSort == Init /\ [][NextSort]_vars

\* suggestions, among writes
NextSuggest ==
  \/ SomeWrites
  \/ GetSuggestions(SuggestionRequests)

SpecSuggest == Init /\ [][NextSuggest]_vars

\* the searches of manage.py, among writes
NextCli ==
  \/ SomeWrites
  \/ SearchPrecedents(CliQueries)

SpecCli == Init /\ [][NextCli]_vars

\* stats, among writes
NextStats ==
  \/ SomeWrites
  \/ StatsCount
  \/ StatsYears
  \/ StatsCourts

SpecStats == Init /\ [][NextStats]_vars

(***************************************************************************)
(* Definitions the properties share.                                       *)
(***************************************************************************)
Titles(tbl) == {r.title : r \in tbl}

\* the title a create or add request carries, NULL when it carries none
RequestTitle(r) ==
  IF r.op = "add" THEN Text(r.req.title)
  ELSE IF "title" \in DOMAIN r.req THEN ToColumn(r.req.title)
  ELSE NULL

\* a create or add came back with an error
Failed(r) == IF r.op = "add" THEN ~r.ok ELSE r.status \in {400, 500}

\* the length of q once trimmed and collapsed, counted on q itself: its
\* non-blank characters and the gaps between its words
CollapsedLength(q) ==
  Cardinality({i \in 1..Len(q) : ~IsSpace(Char(q, i))})
    + Cardinality({i \in 2..Len(q) :
                     /\ IsSpace(Char(q, i)) /\ ~IsSpace(Char(q, i - 1))
                     /\ \E j \in (i + 1)..Len(q) : ~IsSpace(Char(q, j))})

\* trimming and collapsing leave q as it is: single spaces between words only
IsCollapsed(q) ==
  /\ q /= "" => ~IsSpace(Char(q, 1)) /\ ~IsSpace(Char(q, Len(q)))
  /\ \A i \in 1..Len(q) : IsSpace(Char(q, i)) => Char(q, i) = " "
  /\ \A i \in 1..(Len(q) - 1) : ~(IsSpace(Char(q, i)) /\ IsSpace(Char(q, i + 1)))

\* s, in some letter case, is a substring of text
OccursIn(s, text) ==
  LET low  == Lower(s)
      lowt == Lower(text)
  IN  \E i \in 1..(Len(text) - Len(s) + 1) : SubSeq(lowt, i, i + Len(s) - 1) = low

\* s, in some case of its letters A to Z, is a substring of text
OccursInAscii(s, text) ==
  LET low  == Fold(s)
      lowt == Fold(text)
  IN  \E i \in 1..(Len(text) - Len(s) + 1) : SubSeq(lowt, i, i + Len(s) - 1) = low

SearchedColumns == {"title", "description", "keywords", "case_number", "section", "article"}

\* s occurs in one of the six searched columns of r
OccursInRecord(s, r) ==
  \E c \in SearchedColumns : ~r[c].null /\ OccursIn(s, r[c].v)

OccursInRecordAscii(s, r) ==
  \E c \in SearchedColumns : ~r[c].null /\ OccursInAscii(s, r[c].v)

SeqIds(seq) == {seq[i].id : i \in 1..Len(seq)}

PageSizes == {1, 2, 3}

\* the request req asking for page p of pages of pp records
AtPage(req, p, pp) == [req EXCEPT !.page = Text(ToString(p)), !.per_page = Text(ToString(pp))]

\* the pages 1..n of the search req with pp records a page, one after another
RECURSIVE ConcatPages(_, _, _, _)
ConcatPages(tbl, req, pp, n) ==
  IF n = 0 THEN <<>>
  ELSE ConcatPages(tbl, req, pp, n - 1) \o search(tbl, AtPage(req, n, pp)).results

\* the sorted list of all the records the search req matches
FullList(tbl, req) ==
  Sorted(Matching(tbl, sanitize_search_query(Strip(Arg(req, "q", ""))), req.year, req.court),
         Arg(req, "sort", "year"), Arg(req, "order", "desc"))

NoRepeats(seq) == \A i, j \in 1..Len(seq) : seq[i] = seq[j] => i = j

IsSearch == resp.op = "search"

\* the requests the step puts in flight, and those it takes out
Begun == {rec \in BagToSet(run') : CopiesIn(rec, run') > CopiesIn(rec, run)}

Ended == {rec \in BagToSet(run) : CopiesIn(rec, run) > CopiesIn(rec, run')}

ValidSearch == IsSearch /\ resp.out.status = 200

(***************************************************************************)
(* C1.  No two stored records have the same title, whatever HTTP creates,  *)
(* CLI adds and CLI deletes came before and in whatever order their store  *)
(* statements fell.                                                        *)
(***************************************************************************)
C1_TitleUnique == \A r1, r2 \in store : r1.title = r2.title => r1 = r2

\* a CLI add of a title has just been refused while the HTTP create that
\* stored the title has not answered yet and a CLI delete of that record
\* has read it and not deleted it yet
C1_Witness ==
  /\ resp.op = "add" /\ ~resp.ok /\ ParseInt(resp.req.year).ok
  /\ \E r \in store, c, d \in BagToSet(run) :
       /\ r.title = Text(resp.req.title) /\ r.id > SampleCount
       /\ c.op = "create" /\ c.id = r.id /\ RequestTitle(c) = r.title
       /\ d.op = "delete" /\ d.req = r.id

(***************************************************************************)
(* C2.  An HTTP create or CLI add whose title is the title of a stored     *)
(* record ends in an error and leaves the store as it was.                 *)
(***************************************************************************)
\* the creates whose insert the step commits, their responses to come
Commits == {rec \in Begun : rec.op = "create"}

\* the step is a create or add that its insert answers: a create that is
\* refused, or an add
Answers == resp'.op \in {"create", "add"} /\ run' = run

C2_DuplicateCreateFails ==
  [][/\ \A rec \in Commits : RequestTitle(rec) \notin Titles(store)
     /\ (Answers /\ RequestTitle(resp') \in Titles(store))
          => (Failed(resp') /\ store' = store
                /\ Cardinality(store') = Cardinality(store))]_vars

\* an HTTP create has just been refused for its title, with another
\* request in flight
C2_Witness ==
  /\ resp.op = "create" /\ resp.status = 500
  /\ resp.error = "UNIQUE constraint failed"
  /\ RequestTitle(resp) \in Titles(store)
  /\ run /= EmptyBag

(***************************************************************************)
(* C3.  A search whose query, trimmed and collapsed, has fewer than 2      *)
(* characters (the empty and the missing query too) answers 400 without    *)
(* querying the store, whatever the other parameters are: it answers 400   *)
(* in one step that changes neither the table nor the requests in flight,  *)
(* and does so while the table is missing, when a query would fail.        *)
(***************************************************************************)
OtherParams == {NULL, Text("x")}

C3_ShortQueryRejected ==
  [][(resp'.op = "search" /\ CollapsedLength(Arg(resp'.req, "q", "")) < 2)
       => /\ resp'.out.status = 400
          /\ resp'.out.error = "Search query must be at least 2 characters"
          /\ store' = store /\ run' = run /\ boot' = boot
          /\ \A rec \in BagToSet(run) : rec.op = "search" => rec.req /= resp'.req
          /\ \A page, per_page, year, court \in OtherParams :
               search(store, SearchReq(resp'.req.q, page, per_page, year,
                                       court, court, page)).status = 400]_vars

\* a query of blanks around one character, sent with a page that is no
\* number while the table is dropped: a store query would have failed
C3_Witness ==
  /\ IsSearch /\ resp.out.status = 400
  /\ ~resp.req.q.null /\ Len(resp.req.q.v) >= 2
  /\ ~resp.req.page.null /\ ~ParseInt(resp.req.page.v).ok
  /\ ~TableExists

(***************************************************************************)
(* C4.  Searching, without year or court filter, for a substring s of a    *)
(* searched column of a stored record R, s in any letter case, finds R:    *)
(* the search succeeds, counts R and has R on one of its pages.            *)
(***************************************************************************)
\* the search resp answers read one table with both its queries: the
\* response is the one the table as it is gives
Undisturbed == resp.out = search(store, resp.req)

\* out, the response of a search for req on the table tbl, has R on the
\* page returned; when its total was counted on tbl too, it counts R, and
\* R is on one of the pages whatever the page size
FoundIn(out, tbl, req, R) ==
  /\ out.status = 200
  /\ R.id \in SeqIds(out.results)
  /\ out = search(tbl, req) =>
       /\ out.total >= 1
       /\ \A pp \in PageSizes :
            \E p \in 1..search(tbl, AtPage(req, 1, pp)).pages :
              R.id \in SeqIds(search(tbl, AtPage(req, p, pp)).results)

\* a search with a query and nothing else
PlainSearch ==
  /\ IsSearch /\ ~resp.req.q.null /\ resp.req.q.v /= ""
  /\ resp.req.year.null /\ resp.req.court.null
  /\ resp.req.page.null /\ resp.req.per_page.null

\* a search with the query s and nothing else
Unfiltered(s) == SearchReq(Text(s), NULL, NULL, NULL, NULL, NULL, NULL)

\* a record whose title has a letter with two cases that is none of A to Z,
\* and what is searched for: its title as stored, with its ASCII letters
\* in the other case, and with every letter in the other case
AccentedRecord ==
  WithId(Precedent(Text("État v. Ram"), Text("1991-HC-007"), Num(1991),
                   Text("High Court"), Text("Bail granted"), NULL, NULL, NULL), 1)

AccentedQueries == {"État v", "ÉTAT V", "état V", "éTAT"}

\* s can be searched for as it is: trimmed and collapsed it is itself, and
\* it has 2 characters or more
SearchedAsIs(s) == Len(Strip(s)) >= 2 /\ IsCollapsed(Strip(s))

\* the claim as stated, on the table of the accented record alone
AnyCaseFinds ==
  \A s \in AccentedQueries :
    OccursInRecord(s, AccentedRecord)
      => FoundIn(search({AccentedRecord}, Unfiltered(s)), {AccentedRecord},
                 Unfiltered(s), AccentedRecord)

\* the claim as amended, on the table of the accented record alone
AsciiCaseFinds ==
  \A s \in AccentedQueries :
    (SearchedAsIs(s) /\ OccursInRecordAscii(s, AccentedRecord))
      => FoundIn(search({AccentedRecord}, Unfiltered(s)), {AccentedRecord},
                 Unfiltered(s), AccentedRecord)

\* the claim as stated: every substring, in any letter case
C4_EverySubstringFinds ==
  PlainSearch =>
    /\ \A R \in store :
         OccursInRecord(resp.req.q.v, R) => FoundIn(resp.out, store, resp.req, R)
    /\ AnyCaseFinds

\* the claim as amended: every substring that, once trimmed, has at least 2
\* characters and single spaces only between its words, in any case of its
\* letters A to Z
C4_CollapsedSubstringFinds ==
  PlainSearch =>
    /\ SearchedAsIs(resp.req.q.v) =>
         \A R \in store :
           OccursInRecordAscii(resp.req.q.v, R) => FoundIn(resp.out, store, resp.req, R)
    /\ AsciiCaseFinds

\* an upper-case query that is in the section of a record only as lower
\* case found the record while a create had not answered yet; and the
\* accented title is found by its ASCII letters in the other case
C4_Witness ==
  /\ PlainSearch /\ resp.req.q.v = "E 3" /\ resp.out.status = 200
  /\ \E R \in store : OccursIn("E 3", R.section.v) /\ R.id \in SeqIds(resp.out.results)
  /\ \E c \in BagToSet(run) : c.op = "create"
  /\ "ÉTAT V" \in AccentedQueries /\ OccursInRecordAscii("ÉTAT V", AccentedRecord)
  /\ search({AccentedRecord}, Unfiltered("ÉTAT V")).total = 1

(***************************************************************************)
(* C5.  Over an unchanged store and for a page size above 0, the pages     *)
(* 1..pages of a search, one after another, are the full sorted list of    *)
(* the matching records, each record once.                                 *)
(***************************************************************************)
C5_PagesPartition ==
  (ValidSearch /\ Undisturbed) =>
    \A pp \in PageSizes :
      LET full == MapSeq(FullList(store, resp.req), to_dict)
          n    == search(store, AtPage(resp.req, 1, pp)).pages
          all  == ConcatPages(store, resp.req, pp, n)
      IN  /\ all = full
          /\ NoRepeats(all)
          /\ SeqIds(all) = Ids(Matching(store, sanitize_search_query(Strip(resp.req.q.v)),
                                        resp.req.year, resp.req.court))

\* the second page of three matches, two a page
C5_Witness ==
  /\ ValidSearch /\ Undisturbed /\ resp.out.total = 3 /\ resp.out.per_page = 2
  /\ resp.out.page = 2 /\ Len(resp.out.results) = 1

(***************************************************************************)
(* C6.  For a page size above 0, pages is ceil(total / per_page), 0 when   *)
(* total is 0; total is the number of matching records and is the same     *)
(* for every page.                                                         *)
(***************************************************************************)
\* the least n with n * per_page >= total
IsCeilDiv(n, total, per_page) ==
  /\ n >= 0 /\ n * per_page >= total
  /\ n > 0 => (n - 1) * per_page < total

\* the number of records the table tbl holds for the search req: as many
\* as are on its first page when a page can hold every record
MatchCount(tbl, req) == Len(search_page(tbl, AtPage(req, 1, MaxId + 1), 0).results)

\* the searches whose first query the step issues
Counts == {rec \in Begun : rec.op = "search"}

\* the step is the second query of a search, answered with a page
Pages == resp'.op = "search" /\ resp'.out.status = 200 /\ run' /= run

\* the first query counts the matching records of the table it reads,
\* whatever page is asked for; the response has that total, and the pages
\* of that total
C6_PageCount ==
  [][/\ \A rec \in Counts : rec.total = MatchCount(store, rec.req)
     /\ (Pages /\ resp'.out.per_page > 0) =>
          /\ \E rec \in Ended : rec.req = resp'.req /\ rec.total = resp'.out.total
          /\ IsCeilDiv(resp'.out.pages, resp'.out.total, resp'.out.per_page)
          /\ resp'.out.total = 0 => resp'.out.pages = 0
          /\ resp'.out.total = Len(FullList(store, resp'.req)) =>
               paginate_results(FullList(store, resp'.req), resp'.out.page,
                                resp'.out.per_page).pages = resp'.out.pages]_vars

\* three matches, two a page: two pages, for a page that holds no record
C6_Witness ==
  /\ ValidSearch /\ resp.out.total = 3 /\ resp.out.per_page = 2 /\ resp.out.pages = 2
  /\ resp.out.page = 3 /\ MatchCount(store, resp.req) = 3

(***************************************************************************)
(* C7.  A search with a valid query and an integer page outside 1..pages   *)
(* (above pages, or below 1) succeeds with no results and the same total.  *)
(***************************************************************************)
C7_OutOfRangePageEmpty ==
  (/\ IsSearch
   /\ ~QueryInvalid(sanitize_search_query(Strip(Arg(resp.req, "q", ""))))
   /\ ~resp.req.page.null /\ ParseInt(resp.req.page.v).ok
   /\ ~resp.req.per_page.null /\ ParseInt(resp.req.per_page.v).ok
   /\ ParseInt(resp.req.per_page.v).v > 0
   /\ LET total == Len(FullList(store, resp.req))
          page  == ParseInt(resp.req.page.v).v
      IN  \E pages \in 0..total :
            /\ IsCeilDiv(pages, total, ParseInt(resp.req.per_page.v).v)
            /\ page < 1 \/ page > pages)
    => /\ resp.out.status = 200
       /\ resp.out.results = <<>>
       /\ resp.out.total = Len(FullList(store, resp.req))

(***************************************************************************)
(* C8.  The suggestions are sorted ascending without duplicates, at most   *)
(* 5, each starting with the lower-cased prefix; a prefix of fewer than 2  *)
(* characters gives none and no record is scanned: the empty list is the   *)
(* answer while the table is missing too, when a scan would fail.          *)
(***************************************************************************)
StrictlyAscending(seq) == \A i \in 1..(Len(seq) - 1) : StrLess(seq[i], seq[i + 1])

SuggestionsFor(prefix) ==
  IF Len(prefix) < 2
    THEN resp.out.status = 200 /\ resp.out.suggestions = <<>>
    ELSE resp.out.status = 200 =>
           LET list == resp.out.suggestions
           IN  /\ StrictlyAscending(list)
               /\ NoRepeats(list)
               /\ Len(list) <= 5
               /\ \A i \in 1..Len(list) : StartsWith(list[i], prefix)

\* the claim as stated: the prefix is the q of the request, lower-cased
C8_SuggestionsOfPrefix ==
  resp.op = "suggestions" => SuggestionsFor(Lower(Arg(resp.req, "q", "")))

\* the claim as amended: the prefix is the q of the request, trimmed and
\* lower-cased
C8_SuggestionsOfTrimmedPrefix ==
  resp.op = "suggestions" =>
    /\ SuggestionsFor(Lower(Strip(Arg(resp.req, "q", ""))))
    /\ resp.out.status = 200 =>
         \A i \in 1..Len(resp.out.suggestions) :
           \E r \in store : resp.out.suggestions[i] \in TermsOf(r)

\* a prefix of one character between blanks got the empty list while the
\* table was dropped, when a prefix of two characters gets an error
C8_Witness ==
  /\ resp.op = "suggestions" /\ resp.req.q = Text(" a ") /\ resp.out.status = 200
  /\ resp.out.suggestions = <<>>
  /\ ~TableExists

(***************************************************************************)
(* C9.  A POST /api/precedent whose body lacks one of title, case_number,  *)
(* year, court, description answers 400 and leaves the store as it was.    *)
(***************************************************************************)
C9_MissingFieldRejected ==
  [][/\ \A rec \in Commits : \A f \in Range(required_fields) : f \in DOMAIN rec.req
     /\ (/\ resp'.op = "create"
         /\ \E f \in Range(required_fields) : f \notin DOMAIN resp'.req)
          => (resp'.status = 400 /\ store' = store
                /\ Cardinality(store') = Cardinality(store))]_vars

\* a body without description has just been refused, with another request
\* in flight
C9_Witness ==
  /\ resp.op = "create" /\ resp.status = 400
  /\ DOMAIN resp.req = {"title", "case_number", "year", "court", "keywords"}
  /\ run /= EmptyBag

(***************************************************************************)
(* C10.  Every stored record has non-null title, case_number, year, court  *)
(* and description and an integer year; a create (HTTP or CLI) whose year  *)
(* is no integer, or that has null in a required field, is rejected and    *)
(* leaves the store as it was.                                             *)
(***************************************************************************)
\* a JSON value that is an integer, or the text of one
DenotesInteger(x) ==
  \/ x.t = "int"
  \/ x.t = "float" /\ x.n % 10 = 0
  \/ x.t = "str" /\ ParseInt(x.s).ok

\* the request of r must be rejected: its year is no integer, or a required
\* field of it is null
MustReject(r) ==
  IF r.op = "add" THEN ~DenotesInteger(JStr(r.req.year))
  ELSE /\ \A f \in Range(required_fields) : f \in DOMAIN r.req
       /\ \/ ~DenotesInteger(r.req.year)
          \/ \E f \in Range(required_fields) : r.req[f].t = "null"

WellFormed(r) ==
  /\ \A c \in NotNullColumns : ~r[c].null
  /\ r.year.v \in Int

C10_RecordsWellFormed ==
  [][/\ \A r \in store' : WellFormed(r)
     /\ \A rec \in Commits : ~MustReject(rec)
     /\ (Answers /\ MustReject(resp'))
          => (Failed(resp') /\ store' = store)]_vars

(***************************************************************************)
(* C11.  A stored record stays in the store until a delete of manage.py    *)
(* with its id succeeds: no other operation (search, fetch, suggestions,   *)
(* stats, create, add, list, the search of manage.py, init_db at           *)
(* start-up) removes a stored record.                                      *)
(***************************************************************************)
\* record r of the store is gone after the step
Removed(r) == r \in store /\ r \notin store'

\* the step is a successful delete of the record of this id
DeletedBy(id) == resp'.op = "delete" /\ resp'.ok /\ resp'.req = id

C11_OnlyDeleteRemoves ==
  [][\A r \in store : Removed(r) => DeletedBy(r.id)]_vars

(***************************************************************************)
(* C12.  After a create returned a record with id i, a fetch of i returns  *)
(* a record of that id with the same title, case_number, year, court,      *)
(* description and keywords in every later state until record i is         *)
(* deleted; a fetch of an id that is absent returns 404 with error         *)
(* "Precedent not found".                                                  *)
(***************************************************************************)
ReturnedFields == {"id", "title", "case_number", "year", "court", "description", "keywords"}

SameRecord(a, b) == \A f \in ReturnedFields : a[f] = b[f]

\* the answer out is the one a fetch of id must give on the table tbl
FetchAnswers(tbl, id, out) ==
  IF \E r \in tbl : r.id = id
    THEN /\ out.status = 200
         /\ Len(out.body) = 1
         /\ \E r \in tbl : r.id = id /\ SameRecord(out.body[1], r)
    ELSE out.status = 404 /\ out.error = "Precedent not found"

\* a create that succeeds stores what it returns, every fetch answers from
\* the store, and what is stored under an id stays as it is until a delete
\* of that id
C12_FetchReturnsCreated ==
  [][/\ (resp'.op = "create" /\ resp'.status = 201)
          => \E r \in store' : SameRecord(r, resp'.body[1])
     /\ resp'.op = "get" => FetchAnswers(store', resp'.req, resp'.out)
     /\ \A r \in store :
          \/ \E o \in store' : SameRecord(o, r)
          \/ DeletedBy(r.id)]_vars

(***************************************************************************)
(* C13.  For every valid query q and every filter combination, total       *)
(* counts exactly the stored records where q is a case-insensitive         *)
(* substring of one of title, description, keywords, case_number, section, *)
(* article, and the year equals the year filter when one that parses is    *)
(* given, and the court contains the court filter when one is given; no    *)
(* record outside that set is returned.                                    *)
(***************************************************************************)
\* the query of req as the search matches it: trimmed, its whitespace
\* collapsed
QueryOf(req) == sanitize_search_query(Strip(Arg(req, "q", "")))

YearFilterGiven(req) == ~req.year.null /\ req.year.v /= "" /\ ParseInt(req.year.v).ok

CourtFilterGiven(req) == ~req.court.null /\ req.court.v /= ""

\* the records the search req is to count
Wanted(tbl, req) ==
  {r \in tbl :
     /\ OccursInRecord(QueryOf(req), r)
     /\ YearFilterGiven(req) => r.year.v = ParseInt(req.year.v).v
     /\ CourtFilterGiven(req) => OccursIn(req.court.v, r.court.v)}

C13_TotalCountsSubstringMatches ==
  ValidSearch =>
    /\ resp.out.total = Cardinality(Wanted(store, resp.req))
    /\ SeqIds(resp.out.results) \subseteq Ids(Wanted(store, resp.req))

(***************************************************************************)
(* C14.  A search whose year filter is present but does not parse as an    *)
(* integer does not fail and returns the same total and results as the     *)
(* same search without a year filter; the court filter and the text match  *)
(* still apply.                                                            *)
(***************************************************************************)
YearUnparseable(req) == ~req.year.null /\ req.year.v /= "" /\ ~ParseInt(req.year.v).ok

WithoutYear(req) == [req EXCEPT !.year = NULL]

C14_UnparseableYearIgnored ==
  (IsSearch /\ YearUnparseable(resp.req)) =>
    /\ search(store, resp.req) = search(store, WithoutYear(resp.req))
    /\ search_count(store, resp.req) = search_count(store, WithoutYear(resp.req))
    /\ search_refused(resp.req) = search_refused(WithoutYear(resp.req))
    /\ ~search_refused(resp.req) => search(store, resp.req).status = 200
    /\ resp.out.status = 200 =>
         /\ resp.out = search_page(store, WithoutYear(resp.req), resp.out.total)
         /\ search_count(store, resp.req) =
              Cardinality({r \in store : /\ TextMatch(r, QueryOf(resp.req))
                                         /\ CourtMatch(r, resp.req.court)})
         /\ \A i \in 1..Len(resp.out.results) :
              /\ TextMatch(resp.out.results[i], QueryOf(resp.req))
              /\ CourtMatch(resp.out.results[i], resp.req.court)

\* a search with year 19x and court HIGH found the one High Court record of
\* three that match the text
C14_Witness ==
  /\ IsSearch /\ resp.req.year = Text("19x") /\ resp.req.court = Text("HIGH")
  /\ resp.out.status = 200 /\ resp.out.total = 1
  /\ Cardinality({r \in store : TextMatch(r, QueryOf(resp.req))}) = 3

(***************************************************************************)
(* C15.  The results of a search are ordered by the requested sort field   *)
(* (year, title or court) in the requested order (asc or desc, default     *)
(* desc): of two adjacent results the sort key is non-decreasing for asc   *)
(* and non-increasing for desc; when the sort field is none of year,       *)
(* title, court the results are ordered by year descending whatever the    *)
(* order parameter.                                                        *)
(***************************************************************************)
SortFields == {"year", "title", "court"}

NonDecreasing(seq, column) ==
  \A i \in 1..(Len(seq) - 1) : ~KeyLess(seq[i + 1], seq[i], column)

NonIncreasing(seq, column) ==
  \A i \in 1..(Len(seq) - 1) : ~KeyLess(seq[i], seq[i + 1], column)

C15_ResultsOrdered ==
  ValidSearch =>
    LET sort_by    == Arg(resp.req, "sort", "year")
        sort_order == Arg(resp.req, "order", "desc")
        results    == resp.out.results
    IN  /\ (sort_by \in SortFields /\ sort_order = "asc")
             => NonDecreasing(results, sort_by)
        /\ (sort_by \in SortFields /\ sort_order = "desc")
             => NonIncreasing(results, sort_by)
        /\ sort_by \notin SortFields => NonIncreasing(results, "year")

\* a search sorted by court descending returned the record of the later
\* year last: its court is the lesser
C15_Witness ==
  /\ ValidSearch
  /\ resp.req.sort = Text("court") /\ resp.req.order = Text("desc")
  /\ Len(resp.out.results) = 3
  /\ KeyLess(resp.out.results[3], resp.out.results[2], "court")
  /\ KeyLess(resp.out.results[2], resp.out.results[3], "year")

(***************************************************************************)
(* C16.  The search of manage.py is equivalent to the matching of the HTTP *)
(* search: for every store content and every query the HTTP search         *)
(* accepts, it finds exactly the records the unfiltered HTTP search finds  *)
(* for that query.                                                         *)
(***************************************************************************)
C16_CliSearchFindsHttpMatches ==
  (resp.op = "cli_search" /\ resp.out /= Traceback) =>
    LET http == search(store, Unfiltered(resp.req))
    IN  http.status = 200 =>
          /\ SeqIds(resp.out.results) = SeqIds(http.results)
          /\ Len(resp.out.results) = http.total

(***************************************************************************)
(* C17.  In every reachable state the stats operation is consistent with   *)
(* the store: total_precedents is the number of stored records, the counts *)
(* of by_year sum to total_precedents with one entry for every distinct    *)
(* year, and the counts of by_court sum to total_precedents with one entry *)
(* for every distinct court.                                               *)
(***************************************************************************)
RECURSIVE SumCounts(_)
SumCounts(entries) ==
  IF entries = <<>> THEN 0
  ELSE entries[1].count + SumCounts(SubSeq(entries, 2, Len(entries)))

\* entries has one entry for every key of keys and no other, key being the
\* field of an entry that holds its key
OneEntryEach(entries, key, keys) ==
  /\ {entries[i][key] : i \in 1..Len(entries)} = keys
  /\ Len(entries) = Cardinality(keys)

C17_StatsConsistent ==
  (resp.op = "stats" /\ resp.out.status = 200) =>
    /\ resp.out.total_precedents = Cardinality(store)
    /\ SumCounts(resp.out.by_year) = resp.out.total_precedents
    /\ OneEntryEach(resp.out.by_year, "year", {r.year.v : r \in store})
    /\ SumCounts(resp.out.by_court) = resp.out.total_precedents
    /\ OneEntryEach(resp.out.by_court, "court", {r.court.v : r \in store})
====
